---- MODULE Spec2Model ----
(***************************************************************************)
(* A model of the snake game of src/main.rs: the Snake component (segments *)
(* tail first, head last, and the heading), the Food component, the tiles  *)
(* of the TileMap, and the two Update systems `movment` and `turn`.        *)
(*                                                                         *)
(* A position is the pair <<x, y>>; the source's IVec3 always has z = 0.   *)
(* The grid is the 12 x 12 grid of the source.  Two specifications bound   *)
(* the plays that are explored, not the game: Spec explores every play     *)
(* that stays in the corner of the grid where the snake starts, and Tour   *)
(* the plays that follow one closed tour of the whole grid, the food       *)
(* always placed on the cell ahead, until the snake can move no more.      *)
(***************************************************************************)
EXTENDS Integers, Sequences, FiniteSets, TLC

\* Bound of Spec: the number of cells of the corner the plays stay in.
ArenaCells == 6

\* Bound of Tour: how far ahead of the head, in cells of the tour, startup
\* may place the first food.
FoodAhead == 2

\* A startup that does not push the head onto the segments (a faulty variant
\* of startup_segments).
startup_segments_without_head == <<<<0, 0>>, <<0, 1>>>>

\* startup: the segments before the food is placed (two body cells, then the head)
startup_segments == <<<<0, 0>>, <<0, 1>>, <<0, 2>>>>

\* const TILE_ROWS, const TILE_COLUMNS
TILE_ROWS == 12

TILE_COLUMNS == 12

VARIABLES
    segments,   \* Snake.segments: Vec<IVec3>, tail first, head last
    direction,  \* Snake.direction
    food,       \* Food.position
    tiles,      \* TileMap: cell -> Tile (sprite_index, flags)
    pc,         \* "idle" between systems, "generate_food" once the recursion cannot return
    last,       \* history: what the last system run did
    tickDir,    \* history: the heading the latest finished tick computed its candidate from
    collided    \* history: some finished tick has been blocked (is_over)

vars == <<segments, direction, food, tiles, pc, last, tickDir, collided>>

Direction == {"Up", "Down", "Left", "Right"}

KeyCode == {"ArrowUp", "ArrowDown", "ArrowLeft", "ArrowRight"}

\* The cells of the tilemap that startup fills.
Cells == (0 .. TILE_COLUMNS - 1) \X (0 .. TILE_ROWS - 1)

Range(s) == {s[i] : i \in 1 .. Len(s)}

\* Tile { sprite_index, flags }, flags defaulting to no flip.
Tile(idx, flags) == [sprite_index |-> idx, flags |-> flags]

DefaultTile(idx) == Tile(idx, "NONE")

\* TileMap::set_tile(pos, Some(tile))
set_tile(tl, pos, tile) ==
    IF pos \in DOMAIN tl THEN [tl EXCEPT ![pos] = tile] ELSE tl

\* TileMap::set_tile for each position of a set, all with the same tile
set_tiles(tl, ps, tile) == [c \in ps \cap DOMAIN tl |-> tile] @@ tl

\* Snake::head
head(segs) == segs[Len(segs)]

\* A grow that pushes nothing (a faulty variant of grow).
grow_without_push(segs, dir) == segs

\* A grow that steps from the first segment, the tail, instead of the last (a
\* faulty variant of grow).
grow_from_tail(segs, dir) ==
    LET t == segs[1]
    IN  CASE dir = "Up"    -> Append(segs, <<t[1], t[2] + 1>>)
          [] dir = "Down"  -> Append(segs, <<t[1], t[2] - 1>>)
          [] dir = "Left"  -> Append(segs, <<t[1] - 1, t[2]>>)
          [] dir = "Right" -> Append(segs, <<t[1] + 1, t[2]>>)

\* Snake::grow: push the cell one step ahead of the head
grow(segs, dir) ==
    LET h == head(segs)
    IN  CASE dir = "Up"    -> Append(segs, <<h[1], h[2] + 1>>)
          [] dir = "Down"  -> Append(segs, <<h[1], h[2] - 1>>)
          [] dir = "Left"  -> Append(segs, <<h[1] - 1, h[2]>>)
          [] dir = "Right" -> Append(segs, <<h[1] + 1, h[2]>>)

\* movment: the candidate head, the head moved one cell in the heading
new_pos(segs, dir) ==
    LET h == head(segs)
    IN  CASE dir = "Up"    -> <<h[1], h[2] + 1>>
          [] dir = "Down"  -> <<h[1], h[2] - 1>>
          [] dir = "Left"  -> <<h[1] - 1, h[2]>>
          [] dir = "Right" -> <<h[1] + 1, h[2]>>

\* An is_over that tests the body as it will be after the move, the tail cell
\* vacated (a faulty variant of is_over).
is_over_after_move(segs, np) ==
    \/ np \in Range(Tail(segs))
    \/ np[1] < 0
    \/ np[1] >= TILE_COLUMNS
    \/ np[2] < 0
    \/ np[2] >= TILE_ROWS

\* An is_over whose upper bounds are off by one (a faulty variant of is_over).
is_over_off_by_one(segs, np) ==
    \/ np \in Range(segs)
    \/ np[1] < 0
    \/ np[1] > TILE_COLUMNS
    \/ np[2] < 0
    \/ np[2] > TILE_ROWS

\* An is_over without the tests against the lower walls (a faulty variant of
\* is_over).
is_over_without_lower_walls(segs, np) ==
    \/ np \in Range(segs)
    \/ np[1] >= TILE_COLUMNS
    \/ np[2] >= TILE_ROWS

\* movment: is_over
is_over(segs, np) ==
    \/ np \in Range(segs)
    \/ np[1] < 0
    \/ np[1] >= TILE_COLUMNS
    \/ np[2] < 0
    \/ np[2] >= TILE_ROWS

\* Option<IVec3>: None is <<>>, Some(p) is <<p>>.
None == <<>>

Some(p) == <<p>>

\* A generate_food without the length test (a faulty variant of
\* generate_food).
generate_food_without_short_circuit(segs) ==
    {Some(c) : c \in {c \in Cells : c \notin Range(segs)}}

\* generate_food: the set of values the call can return.  With the length
\* short-circuit not taken it samples a cell and recurses while the sample is
\* in segments: it can return every cell that is not in segments, and it
\* returns nothing at all (the recursion never ends) when there is none.
generate_food(segs) ==
    IF Len(segs) = TILE_ROWS * TILE_COLUMNS
    THEN {None}
    ELSE {Some(c) : c \in {c \in Cells : c \notin Range(segs)}}

\* update_snake: the head sprite of a heading
head_tile(dir) ==
    CASE dir = "Up"    -> Tile(3, "NONE")
      [] dir = "Down"  -> Tile(3, "FLIP_Y")
      [] dir = "Left"  -> Tile(4, "FLIP_X")
      [] dir = "Right" -> Tile(4, "NONE")

\* An update_snake without the shift loop: the old head is popped and the
\* new one pushed (a faulty variant of update_segments).
update_segments_without_shift(np, segs) ==
    Append(SubSeq(segs, 1, Len(segs) - 1), np)

\* An update_snake without the pop (a faulty variant of update_segments).
update_segments_without_pop(np, segs) ==
    LET n       == Len(segs)
        shifted == [i \in 1 .. n |-> IF i < n THEN segs[i + 1] ELSE segs[i]]
    IN  Append(shifted, np)

\* update_snake: the segments after the shift loop, the pop and the push
update_segments(np, segs) ==
    LET n       == Len(segs)
        shifted == [i \in 1 .. n |-> IF i < n THEN segs[i + 1] ELSE segs[i]]
        popped  == SubSeq(shifted, 1, n - 1)
    IN  Append(popped, np)

\* An update_snake whose first loop does not reset the tiles it leaves (a
\* faulty variant of update_tiles).
update_tiles_without_reset(np, segs, dir, tl) ==
    LET n       == Len(segs)
        shifted == [i \in 1 .. n |-> IF i < n THEN segs[i + 1] ELSE segs[i]]
        popped  == SubSeq(shifted, 1, n - 1)
        body    == set_tiles(tl, Range(popped), DefaultTile(2))
    IN  set_tile(body, np, head_tile(dir))

\* update_snake: the tiles after the calls of set_tile, in the code's order
update_tiles(np, segs, dir, tl) ==
    LET n       == Len(segs)
        cleared == set_tiles(tl, {segs[i] : i \in 1 .. n - 1}, DefaultTile(0))
        shifted == [i \in 1 .. n |-> IF i < n THEN segs[i + 1] ELSE segs[i]]
        popped  == SubSeq(shifted, 1, n - 1)
        body    == set_tiles(cleared, Range(popped), DefaultTile(2))
    IN  set_tile(body, np, head_tile(dir))

\* startup: the tiles before the food is placed
startup_tiles ==
    LET empty  == [c \in Cells |-> DefaultTile(0)]
        headed == set_tile(empty, <<0, 2>>, DefaultTile(3))
    IN  set_tiles(headed, {<<0, 0>>, <<0, 1>>}, DefaultTile(2))

\* The state startup leaves: generate_food(...).expect(...) has returned Some.
Init ==
    /\ segments = startup_segments
    /\ direction = "Up"
    /\ \E r \in generate_food(startup_segments) :
          /\ r # None
          /\ food = r[1]
          /\ tiles = set_tile(startup_tiles, r[1], DefaultTile(1))
    /\ pc = "idle"
    /\ last = "startup"
    /\ tickDir = "None"
    /\ collided = FALSE

\* movment, the timer finished, is_over: the early return
Blocked ==
    /\ is_over(segments, new_pos(segments, direction))
    /\ last' = "blocked"
    /\ collided' = TRUE
    /\ UNCHANGED <<segments, food, tiles, pc>>

\* A move that places new food on every tick, the test of the candidate head
\* against the food left out (a faulty variant of Moved).
Moved_replacing_food ==
    LET np == new_pos(segments, direction)
    IN  /\ ~is_over(segments, np)
        /\ np # food
        /\ \E r \in generate_food(segments) :
              /\ food' = IF r = None THEN food ELSE r[1]
              /\ segments' = update_segments(np, segments)
              /\ tiles' = update_tiles(np, segments, direction,
                                       IF r = None THEN tiles
                                       ELSE set_tile(tiles, r[1], DefaultTile(1)))
        /\ last' = "moved"
        /\ UNCHANGED <<pc, collided>>

\* movment, the timer finished, the candidate is not the food
Moved ==
    LET np == new_pos(segments, direction)
    IN  /\ ~is_over(segments, np)
        /\ np # food
        /\ segments' = update_segments(np, segments)
        /\ tiles' = update_tiles(np, segments, direction, tiles)
        /\ last' = "moved"
        /\ UNCHANGED <<food, pc, collided>>

\* movment, the timer finished, the candidate is the food: grow, generate_food,
\* update_snake
Ate ==
    LET np    == new_pos(segments, direction)
        grown == grow(segments, direction)
    IN  /\ ~is_over(segments, np)
        /\ np = food
        /\ IF generate_food(grown) = {}
           THEN /\ pc' = "generate_food"
                /\ segments' = grown
                /\ last' = "hung"
                /\ UNCHANGED <<food, tiles, collided>>
           ELSE \E r \in generate_food(grown) :
                  LET placed == IF r = None THEN tiles
                                ELSE set_tile(tiles, r[1], DefaultTile(1))
                  IN  /\ food' = IF r = None THEN food ELSE r[1]
                      /\ segments' = update_segments(np, grown)
                      /\ tiles' = update_tiles(np, grown, direction, placed)
                      /\ last' = "ate"
                      /\ UNCHANGED <<pc, collided>>

\* movment with timer.0.tick(time.delta()).finished()
Tick ==
    /\ pc = "idle"
    /\ tickDir' = direction
    /\ UNCHANGED direction
    /\ (Blocked \/ Moved \/ Ate)

\* movment: one run of the system; nothing happens while the timer runs
movment ==
    \E finished \in BOOLEAN :
        IF finished THEN Tick ELSE (pc = "idle" /\ UNCHANGED vars)

\* A turn that tests the four keys whatever the heading (a faulty variant of
\* turn_direction).
turn_direction_any_axis(dir, pressed) ==
    LET d1 == IF "ArrowLeft" \in pressed THEN "Left" ELSE dir
        d2 == IF "ArrowRight" \in pressed THEN "Right" ELSE d1
        d3 == IF "ArrowUp" \in pressed THEN "Up" ELSE d2
    IN  IF "ArrowDown" \in pressed THEN "Down" ELSE d3

\* turn: the heading after one run with the keys just pressed
turn_direction(dir, pressed) ==
    IF dir \in {"Up", "Down"}
    THEN LET d1 == IF "ArrowLeft" \in pressed THEN "Left" ELSE dir
         IN  IF "ArrowRight" \in pressed THEN "Right" ELSE d1
    ELSE LET d1 == IF "ArrowUp" \in pressed THEN "Up" ELSE dir
         IN  IF "ArrowDown" \in pressed THEN "Down" ELSE d1

\* A turn that also redraws the head tile with the new heading (a faulty
\* variant of Turn).
Turn_redrawing_head(pressed) ==
    /\ pc = "idle"
    /\ direction' = turn_direction(direction, pressed)
    /\ tiles' = set_tile(tiles, head(segments), head_tile(direction'))
    /\ last' = "turn"
    /\ UNCHANGED <<segments, food, pc, tickDir, collided>>

\* turn: one run of the system with a set of keys just pressed
Turn(pressed) ==
    /\ pc = "idle"
    /\ direction' = turn_direction(direction, pressed)
    /\ last' = "turn"
    /\ UNCHANGED <<segments, food, tiles, pc, tickDir, collided>>

turn == \E pressed \in SUBSET KeyCode : Turn(pressed)

Next == movment \/ turn

\* The corner of the grid where Spec keeps the snake and the food: the first
\* ArenaCells cells counted up the columns from <<0, 0>>, each column as high
\* as the snake of startup.  Its left and bottom sides are walls of the grid;
\* a play that leaves it on another side is not explored further.
ArenaRows == Len(startup_segments)

InArena(c) == c[2] < ArenaRows /\ c[1] * ArenaRows + c[2] < ArenaCells

StaysInArena ==
    /\ \A i \in 1 .. Len(segments) : InArena(segments[i])
    /\ InArena(food)

ArenaInit == Init /\ StaysInArena

ArenaTick == movment /\ StaysInArena'

ArenaTurn == turn /\ StaysInArena'

ArenaStep == ArenaTick \/ ArenaTurn

Spec == ArenaInit /\ [][ArenaStep]_vars

(***************************************************************************)
(* The vocabulary of the properties, written from the grid and the         *)
(* headings alone, not from the operators above.                           *)
(***************************************************************************)

Opposite(d) ==
    CASE d = "Up"    -> "Down"
      [] d = "Down"  -> "Up"
      [] d = "Left"  -> "Right"
      [] d = "Right" -> "Left"

Vertical(d) == d \in {"Up", "Down"}

\* The cell one step from p in heading d (y grows upwards).
Ahead(p, d) ==
    <<p[1] + (IF d = "Right" THEN 1 ELSE IF d = "Left" THEN -1 ELSE 0),
      p[2] + (IF d = "Up" THEN 1 ELSE IF d = "Down" THEN -1 ELSE 0)>>

InGrid(p) == p[1] \in 0 .. TILE_COLUMNS - 1 /\ p[2] \in 0 .. TILE_ROWS - 1

\* The candidate head of a tick taken in the current state.
Candidate == Ahead(segments[Len(segments)], direction)

InBody(p) == \E i \in 1 .. Len(segments) : segments[i] = p

\* A tick taken in the current state is blocked.
CandidateBlocked == ~InGrid(Candidate) \/ InBody(Candidate)

\* A finished tick that is not blocked and whose candidate head is the food.
EatingTick == Tick /\ ~CandidateBlocked /\ Candidate = food

\* A finished tick that is not blocked and whose candidate head is not the food.
MovingTick == Tick /\ ~CandidateBlocked /\ Candidate # food

(***************************************************************************)
(* Tour: the plays in which the player steers the snake along one closed   *)
(* tour of the grid and the food comes up on the cell of the tour ahead of *)
(* the head.  The systems are the ones of Spec; only the keys, the moment  *)
(* of the ticks and the samples of generate_food are chosen.               *)
(***************************************************************************)

\* The cell after c on the tour: up the first column, then down and up the
\* other columns above the bottom row, then back along the bottom row.
TourNext(c) ==
    LET x == c[1]
        y == c[2]
    IN  IF y = 0 /\ x > 0 THEN <<x - 1, 0>>
        ELSE IF x = 0
             THEN (IF y < TILE_ROWS - 1 THEN <<0, y + 1>> ELSE <<1, y>>)
        ELSE IF x % 2 = 1
             THEN (IF y > 1 THEN <<x, y - 1>>
                   ELSE IF x < TILE_COLUMNS - 1 THEN <<x + 1, y>> ELSE <<x, 0>>)
        ELSE (IF y < TILE_ROWS - 1 THEN <<x, y + 1>> ELSE <<x + 1, y>>)

\* q is at most k cells ahead of p on the tour.
RECURSIVE TourWithin(_, _, _)
TourWithin(p, q, k) ==
    p = q \/ (k > 0 /\ TourWithin(TourNext(p), q, k - 1))

\* startup has put the food at most FoodAhead cells from the head on the tour.
TourInit ==
    /\ Init
    /\ TourWithin(segments[Len(segments)], food, FoodAhead)

\* A tick comes when the snake heads for the next cell of the tour, or when it
\* faces a wall or itself; an eating tick puts the food on the next cell.
TourTick ==
    /\ Candidate = TourNext(segments[Len(segments)]) \/ CandidateBlocked
    /\ movment
    /\ food' = food \/ food' = TourNext(segments'[Len(segments')])

\* The player presses the keys that head the snake for the next cell.
TourTurn ==
    /\ turn
    /\ Ahead(segments[Len(segments)], direction') = TourNext(segments[Len(segments)])

TourStep == TourTick \/ TourTurn

Tour == TourInit /\ [][TourStep]_vars

(***************************************************************************)
(* C1: in every reachable state the segments hold no two equal positions.  *)
(* The code breaks it on the first eating tick: grow pushes the candidate  *)
(* head, and update_snake then drops the tail and pushes it again.         *)
(***************************************************************************)
NoDuplicateSegments ==
    \A i, j \in 1 .. Len(segments) : i # j => segments[i] # segments[j]

(***************************************************************************)
(* C2: on a non-blocked tick whose candidate head is the food, the body    *)
(* after the tick is the body before it with the candidate head appended.  *)
(* The code leaves the body without its tail and with the head twice.      *)
(***************************************************************************)
EatingTickAppendsHead ==
    [][EatingTick => segments' = Append(segments, Candidate)]_vars

(***************************************************************************)
(* C3: once a tick has been blocked, the body and the food never change    *)
(* again.  The code keeps no game-over state: a turn after the blocked     *)
(* tick lets the next tick move the snake.                                 *)
(***************************************************************************)
CollisionIsTerminal ==
    [][collided => (segments' = segments /\ food' = food)]_vars

(***************************************************************************)
(* C4: the heading a tick computes its candidate head from is never the    *)
(* opposite of the heading the tick before it used.  Two runs of turn      *)
(* between two ticks (Up -> Left -> Down) reverse the heading.             *)
(***************************************************************************)
NoReversalBetweenTicks ==
    [][(Tick /\ tickDir # "None") => direction # Opposite(tickDir)]_vars

(***************************************************************************)
(* C5: one run of turn leaves the heading unchanged or puts it on the      *)
(* other axis, never reverses it; when both keys of the other axis are     *)
(* pressed the later-tested one (Right, Down) wins; the keys of the        *)
(* heading's own axis have no effect.                                      *)
(***************************************************************************)
\* The heading `after` is what one run of turn may leave of the current
\* heading when the keys `pressed` were just pressed.
TurnsAsAllowed(pressed, after) ==
    LET across == IF Vertical(direction)
                  THEN pressed \cap {"ArrowLeft", "ArrowRight"}
                  ELSE pressed \cap {"ArrowUp", "ArrowDown"}
    IN  /\ after # Opposite(direction)
        /\ after = direction \/ Vertical(after) # Vertical(direction)
        /\ across = {} => after = direction
        /\ across = {"ArrowLeft"} => after = "Left"
        /\ "ArrowRight" \in across => after = "Right"
        /\ across = {"ArrowUp"} => after = "Up"
        /\ "ArrowDown" \in across => after = "Down"

TurnOnlyPerpendicular ==
    /\ [](\A pressed \in SUBSET KeyCode :
             TurnsAsAllowed(pressed, turn_direction(direction, pressed)))
    /\ [][direction' # direction =>
             /\ \E pressed \in SUBSET KeyCode : Turn(pressed)
             /\ direction' # Opposite(direction)
             /\ Vertical(direction') # Vertical(direction)]_vars

\* C5 witness: a run of turn has put the heading on the other axis than the one
\* the latest tick moved along.
TurnedAcross ==
    /\ last = "turn"
    /\ tickDir # "None"
    /\ Vertical(direction) # Vertical(tickDir)

(***************************************************************************)
(* C6: a tick is blocked if and only if its candidate head is outside the  *)
(* grid or equals a cell of the body before the move, the tail cell        *)
(* included.                                                               *)
(***************************************************************************)
BlockedIffOutsideOrInBody ==
    [][Tick => ((last' = "blocked") <=> CandidateBlocked)]_vars

\* C6 witness: a tick has just been blocked whose candidate head is the tail
\* cell of a body of four or more distinct cells.
BlockedByTail ==
    /\ last = "blocked"
    /\ tickDir = direction
    /\ Len(segments) >= 4
    /\ NoDuplicateSegments
    /\ Candidate = segments[1]

(***************************************************************************)
(* C7: a blocked tick changes neither the segments, nor the heading, nor   *)
(* the food position, nor any tile.                                        *)
(***************************************************************************)
BlockedTickMutatesNothing ==
    [][(Tick /\ CandidateBlocked) =>
          UNCHANGED <<segments, direction, food, tiles>>]_vars

\* C7 witness: a tick has just been blocked with the head in the top row,
\* heading Up.
BlockedAtTopWall ==
    /\ last = "blocked"
    /\ tickDir = "Up"
    /\ direction = "Up"
    /\ segments[Len(segments)][2] = TILE_ROWS - 1

(***************************************************************************)
(* C8: a non-blocked tick keeps the length of the segments when its        *)
(* candidate head is not the food, and adds exactly 1 when it is.          *)
(***************************************************************************)
TickLength ==
    [][/\ MovingTick => Len(segments') = Len(segments)
       /\ EatingTick => Len(segments') = Len(segments) + 1]_vars

\* C8 witness: an eating tick has just run and the snake is longer than the
\* one startup built.
GrewByEating ==
    /\ last = "ate"
    /\ Len(segments) > Len(startup_segments)

(***************************************************************************)
(* C9: a non-blocked tick that does not eat drops the first segment, keeps *)
(* the others in order and appends the candidate head; after every         *)
(* non-blocked tick the last segment is the candidate head of that tick.   *)
(***************************************************************************)
SlidingWindow ==
    [][/\ MovingTick => segments' = Tail(segments) \o <<Candidate>>
       /\ (Tick /\ ~CandidateBlocked) => segments'[Len(segments')] = Candidate]_vars

\* C9 witness: a non-eating tick has just moved a snake of distinct cells one
\* step in the heading of that tick.
SlidOneStep ==
    /\ last = "moved"
    /\ NoDuplicateSegments
    /\ segments[Len(segments)] = Ahead(segments[Len(segments) - 1], tickDir)

(***************************************************************************)
(* C10: on an eating tick, whenever a cell of the grid is not covered by   *)
(* the segments given to generate_food (the body with the candidate head   *)
(* pushed), the food is replaced by such a cell; the food stays where it   *)
(* was (no placement) only when the segments cover every cell.             *)
(***************************************************************************)
FoodPlacedWheneverFree ==
    [][EatingTick =>
          LET free == {c \in Cells : ~InBody(c) /\ c # Candidate}
          IN  /\ free # {} => food' \in free
              /\ free = {} => food' = food]_vars

(***************************************************************************)
(* C11: in every reachable state the segments hold at most W x H elements, *)
(* also after a tick on which generate_food returned no placement and the  *)
(* food stayed where it was.                                               *)
(***************************************************************************)
LengthWithinGrid == Len(segments) <= TILE_ROWS * TILE_COLUMNS

\* C11 witness: an eating tick has just brought the segments to W x H
\* elements; generate_food returned None and the food is where it was eaten.
GrewToGridSize ==
    /\ last = "ate"
    /\ Len(segments) = TILE_ROWS * TILE_COLUMNS
    /\ food = segments[Len(segments)]

(***************************************************************************)
(* C12: the food position changes only on a non-blocked tick whose         *)
(* candidate head is the food; a turn, a blocked tick and a tick that does *)
(* not eat leave it unchanged, and it is always a cell of the grid (the    *)
(* food is replaced, never removed).                                       *)
(***************************************************************************)
FoodChangesOnlyWhenEaten ==
    [][/\ food' # food => EatingTick
       /\ (\E pressed \in SUBSET KeyCode : Turn(pressed)) => food' = food
       /\ (Tick /\ CandidateBlocked) => food' = food
       /\ MovingTick => food' = food
       /\ InGrid(food')]_vars

\* C12 witness: a blocked tick, a turn and then a tick that moved without
\* eating have run, and the food is still on a free cell of the grid.
MovedPastFood ==
    /\ last = "moved"
    /\ collided
    /\ InGrid(food)
    /\ ~InBody(food)

(***************************************************************************)
(* C13: a run of turn changes nothing but the heading (the segments, the   *)
(* food and the tiles stay as they were); a tick does not change the       *)
(* heading and moves the head one cell in the heading it finds, the one    *)
(* the latest run of turn left.                                            *)
(***************************************************************************)
TurnIsNotRetroactive ==
    [][/\ (\E pressed \in SUBSET KeyCode : Turn(pressed)) =>
              UNCHANGED <<segments, food, tiles>>
       /\ Tick => direction' = direction
       /\ (Tick /\ ~CandidateBlocked) =>
              segments'[Len(segments')] =
                  Ahead(segments[Len(segments)], direction)]_vars

\* C13 witness: the latest tick moved the head in a heading other than the
\* one that had brought it to its cell: a turn came between the two moves, and
\* the segments behind the head are where they were.
MovedAfterTurn ==
    /\ last = "moved"
    /\ Len(segments) >= 3
    /\ segments[Len(segments)] = Ahead(segments[Len(segments) - 1], tickDir)
    /\ segments[Len(segments) - 1] # segments[Len(segments) - 2]
    /\ segments[Len(segments) - 1] # Ahead(segments[Len(segments) - 2], tickDir)

(***************************************************************************)
(* C14: after startup and after every committed (non-blocked) tick the     *)
(* tilemap agrees with the game state on every cell: the head cell shows   *)
(* the head sprite facing the heading of that tick (3 for Up, 3 flipped in *)
(* y for Down, 4 for Right, 4 flipped in x for Left), every other body     *)
(* cell shows sprite 2, the food cell shows sprite 1 when the snake does   *)
(* not cover it, and every other cell shows sprite 0.                      *)
(***************************************************************************)
HeadSprite(d) ==
    [sprite_index |-> IF Vertical(d) THEN 3 ELSE 4,
     flags        |-> IF d = "Down" THEN "FLIP_Y"
                      ELSE IF d = "Left" THEN "FLIP_X" ELSE "NONE"]

PlainSprite(n) == [sprite_index |-> n, flags |-> "NONE"]

\* What the cell c has to show when the head faces d.
Shown(c, d) ==
    IF c = segments[Len(segments)] THEN HeadSprite(d)
    ELSE IF InBody(c) THEN PlainSprite(2)
    ELSE IF c = food THEN PlainSprite(1)
    ELSE PlainSprite(0)

TilemapShowsGame ==
    /\ last = "startup" => \A c \in Cells : tiles[c] = Shown(c, "Up")
    /\ last \in {"moved", "ate"} => \A c \in Cells : tiles[c] = Shown(c, tickDir)

\* C14 witness: an eating tick heading Down or Left has just been committed
\* after a tail cell was left: the map holds a flipped head, body cells, the
\* new food and a cell that went back to empty.
RedrawnAfterEating ==
    /\ last = "ate"
    /\ tickDir \in {"Down", "Left"}
    /\ ~InBody(food)
    /\ ~InBody(<<0, 0>>)
    /\ food # <<0, 0>>

(***************************************************************************)
(* C15: at session start the snake has length 2, a fixed heading, pairwise *)
(* distinct segments inside the grid with the head last, and the food is   *)
(* on a cell of the grid that the snake does not occupy.  The code starts  *)
(* the snake with three segments: two body cells and the head.             *)
(***************************************************************************)
StartsWellFormed ==
    /\ direction = "Up"
    /\ NoDuplicateSegments
    /\ \A i \in 1 .. Len(segments) : InGrid(segments[i])
    /\ \A c \in Cells : tiles[c].sprite_index = 3 <=> c = segments[Len(segments)]
    /\ InGrid(food)
    /\ ~InBody(food)

StartsWithTwoSegments ==
    last = "startup" => (Len(segments) = 2 /\ StartsWellFormed)

\* C15 as amended: the same with length 3.
StartsWithThreeSegments ==
    last = "startup" => (Len(segments) = 3 /\ StartsWellFormed)

\* C15 witness: the state startup leaves, the food on the cell to the right of
\* the head.
StartedWithFoodBesideHead ==
    /\ last = "startup"
    /\ segments[Len(segments)] = <<0, 2>>
    /\ food = <<1, 2>>

(***************************************************************************)
(* C16: in every reachable state every segment and the food position are   *)
(* inside the grid: 0 <= x < W and 0 <= y < H.                             *)
(***************************************************************************)
AllInsideGrid ==
    /\ \A i \in 1 .. Len(segments) :
          /\ 0 <= segments[i][1] /\ segments[i][1] < TILE_COLUMNS
          /\ 0 <= segments[i][2] /\ segments[i][2] < TILE_ROWS
    /\ 0 <= food[1] /\ food[1] < TILE_COLUMNS
    /\ 0 <= food[2] /\ food[2] < TILE_ROWS

\* C16 witness: a tick has moved the head into the far corner of the grid and
\* the next tick has been blocked by the wall there.
StoppedInFarCorner ==
    /\ last = "blocked"
    /\ tickDir = "Right"
    /\ segments[Len(segments)] = <<TILE_COLUMNS - 1, TILE_ROWS - 1>>

(***************************************************************************)
(* C17: in every reachable state the food position is not a cell of the    *)
(* segments, also after the tick on which generate_food returns no         *)
(* placement.  On that tick the code leaves the food where it was eaten,   *)
(* which is the new head cell; generate_food returns no placement there    *)
(* because the length it tests counts the repeated cells (C10, C1).        *)
(***************************************************************************)
FoodNeverUnderSnake == ~InBody(food)

(***************************************************************************)
(* C18: food placement can always terminate.  Every call of generate_food  *)
(* that passes the length test (the length given is not W x H) is given    *)
(* segments that leave a cell of the grid free: the call of startup, and   *)
(* the call of every eating tick, which is given the body with the         *)
(* candidate head pushed.  The recursion is never entered with every cell  *)
(* occupied.                                                               *)
(***************************************************************************)
FoodPlacementCanTerminate ==
    /\ pc = "idle"
    /\ last = "startup" =>
          (Len(segments) # TILE_ROWS * TILE_COLUMNS =>
              \E c \in Cells : ~InBody(c))
    /\ (~CandidateBlocked /\ Candidate = food) =>
          (Len(segments) + 1 # TILE_ROWS * TILE_COLUMNS =>
              \E c \in Cells : ~InBody(c) /\ c # Candidate)

\* C18 witness: a tick is about to eat and the length given to generate_food
\* will be one less than W x H, the greatest that passes the length test
\* before the test first fails; a cell is free for the new food.
AboutToEatBelowGridSize ==
    /\ pc = "idle"
    /\ ~CandidateBlocked
    /\ Candidate = food
    /\ Len(segments) + 1 = TILE_ROWS * TILE_COLUMNS - 1
    /\ \E c \in Cells : ~InBody(c) /\ c # Candidate

(***************************************************************************)
(* C19: the body is connected in every reachable state: two consecutive    *)
(* segments are the same cell or differ by exactly 1 in exactly one        *)
(* coordinate.                                                             *)
(***************************************************************************)
Distance(p, q) ==
    (IF p[1] >= q[1] THEN p[1] - q[1] ELSE q[1] - p[1])
    + (IF p[2] >= q[2] THEN p[2] - q[2] ELSE q[2] - p[2])

BodyConnected ==
    \A i \in 1 .. Len(segments) - 1 :
        Distance(segments[i], segments[i + 1]) <= 1

\* C19 witness: after an eating tick and later moves the body holds a pair of
\* equal consecutive segments away from the head and a bend.
BentBodyWithRepeatedCell ==
    /\ last = "moved"
    /\ \E i \in 1 .. Len(segments) - 2 : segments[i] = segments[i + 1]
    /\ \E i \in 1 .. Len(segments) - 2 :
          /\ segments[i][1] # segments[i + 2][1]
          /\ segments[i][2] # segments[i + 2][2]

====
